---------------------------- MODULE Spec2Model ----------------------------
(***************************************************************************)
(* A model of the guessing game of src/app.py: the four SQLite tables, the *)
(* per-browser Flask session dictionaries, and one action per route.       *)
(*                                                                         *)
(* Strings are sequences of tokens.  A token is a blank " ", the marker    *)
(* URL (standing for the substring "open.spotify.com/track/"), one of the  *)
(* separators "?" and "/", or an opaque piece of text.                     *)
(***************************************************************************)
EXTENDS Integers, Sequences, FiniteSets, Bags, TLC

VARIABLES
    people,         \* table people: sequence of rows [id, name], in rowid order
    tracks,         \* table tracks: bag of rows [person_id, track_id, pos]
    leaderboard,    \* table leaderboard: sequence of rows [name, right, total, percent]
    person_stats,   \* table person_stats: set of rows, person_id the primary key
    session,        \* session token -> the session dictionary (key -> value)
    response,       \* the response of the request handled last
    rounds,         \* history variable: per session, the round views rendered
    last_call,      \* history variable: name -> form values of its latest accepted POST
    requests        \* the requests being handled step by step: id -> its local state

vars == <<people, tracks, leaderboard, person_stats, session, response,
          rounds, last_call, requests>>

db == <<people, tracks, leaderboard, person_stats>>

----------------------------------------------------------------------------
(* Bounds of the model.                                                    *)

\* participants that may be entered
MaxNames == 3
\* participants that may be entered where the pool grows during a session
MaxGrow == 4
\* participants that may be entered where only the store is exercised
MaxStoreNames == 2
\* person_stats.total_guesses is counted up to this value
MaxGuesses == 1
\* rows the leaderboard table may hold
MaxLeaderboard == 2
\* round views rendered to one session between two resets
MaxRounds == 4
\* largest score.total the percent computation is applied to
MaxTotal == 50

\* participants, and rounds of a play, where the progress shown is followed
MaxProgress == 5
\* guesses counted for one participant where two browsers fill the statistics
MaxStatGuesses == 2
\* guesses counted for one participant where only the statistics are exercised
MaxStatTotal == 35
\* wrong guesses among them
MaxWrong == 3

AllNames == <<"ann", "bob", "cat", "dan", "eve", "fay">>

----------------------------------------------------------------------------
(* Python values and dictionaries.                                         *)

None == [none |-> TRUE]

\* a Python list as a value that can be told from None
List(items) == [list |-> items]

IsNone(v) == DOMAIN v = {"none"}

EmptyDict == [k \in {} |-> None]

Has(d, k) == k \in DOMAIN d

\* d.get(k, default)
Get(d, k, default) == IF k \in DOMAIN d THEN d[k] ELSE default

\* d[k] = v
Put(d, k, v) == [x \in DOMAIN d \cup {k} |-> IF x = k THEN v ELSE d[x]]

\* d.pop(k, None)
Pop(d, k) == [x \in DOMAIN d \ {k} |-> d[x]]

RECURSIVE PopAll(_, _)
PopAll(d, ks) ==
    IF ks = <<>> THEN d ELSE PopAll(Pop(d, Head(ks)), Tail(ks))

\* bool(v) of a value that is None, a boolean or absent
Truthy(d, k) == Has(d, k) /\ d[k] = TRUE

Range(s) == {s[i] : i \in DOMAIN s}

\* list.remove(x): drops the first occurrence
RECURSIVE Remove(_, _)
Remove(s, x) ==
    IF s = <<>> THEN <<>>
    ELSE IF Head(s) = x THEN Tail(s)
    ELSE <<Head(s)>> \o Remove(Tail(s), x)

----------------------------------------------------------------------------
(* Strings.                                                                *)

Blank == " "
URL == "open.spotify.com/track/"

RECURSIVE lstrip(_)
lstrip(s) ==
    IF s # <<>> /\ Head(s) = Blank THEN lstrip(Tail(s)) ELSE s

RECURSIVE rstrip(_)
rstrip(s) ==
    IF s # <<>> /\ s[Len(s)] = Blank THEN rstrip(SubSeq(s, 1, Len(s) - 1)) ELSE s

\* str.strip()
strip(s) == rstrip(lstrip(s))

\* the text before the first occurrence of token sep: s.split(sep)[0]
RECURSIVE Before(_, _)
Before(s, sep) ==
    IF s = <<>> \/ Head(s) = sep THEN <<>>
    ELSE <<Head(s)>> \o Before(Tail(s), sep)

\* the text after the first occurrence of token sep, which occurs in s
RECURSIVE After(_, _)
After(s, sep) ==
    IF Head(s) = sep THEN Tail(s) ELSE After(Tail(s), sep)

extract_track_id(s) ==
    IF URL \in Range(s)
    THEN LET part == Before(After(s, URL), URL)      \* s.split(URL)[1]
         IN  Before(Before(part, "?"), "/")
    ELSE s

----------------------------------------------------------------------------
(* Python float arithmetic: IEEE 754 binary64, round to nearest, ties to   *)
(* even.  A positive double is [m |-> its 53 mantissa bits, the highest    *)
(* first, e |-> the exponent of the lowest bit]; the integers are small,   *)
(* so no exponent leaves the normal range.                                 *)

DoubleBits == 53

Reverse(s) == [i \in 1..Len(s) |-> s[Len(s) + 1 - i]]

\* the first cnt bits of n / d, where d <= n < 2 * d
RECURSIVE DivBits(_, _, _)
DivBits(n, d, cnt) ==
    IF cnt = 0 THEN <<>>
    ELSE LET b == IF n >= d THEN 1 ELSE 0
         IN  <<b>> \o DivBits(2 * (n - b * d), d, cnt - 1)

\* what is left of n / d after cnt bits
RECURSIVE DivRest(_, _, _)
DivRest(n, d, cnt) ==
    IF cnt = 0 THEN n
    ELSE DivRest(2 * (n - (IF n >= d THEN d ELSE 0)), d, cnt - 1)

\* bits (lowest first) plus one
RECURSIVE IncLow(_)
IncLow(low) ==
    IF low = <<>> THEN <<1>>
    ELSE IF Head(low) = 0 THEN <<1>> \o Tail(low)
    ELSE <<0>> \o IncLow(Tail(low))

\* bits (highest first, lowest bit of exponent e, at least DoubleBits of them,
\* sticky: a nonzero rest below them) rounded to a double
RoundDouble(bits, e, sticky) ==
    LET drop == Len(bits) - DoubleBits
        keep == SubSeq(bits, 1, DoubleBits)
        half == drop > 0 /\ bits[DoubleBits + 1] = 1
        rest == sticky \/ \E i \in (DoubleBits + 2)..Len(bits) : bits[i] = 1
        up   == half /\ (rest \/ keep[DoubleBits] = 1)
        inc  == Reverse(IncLow(Reverse(keep)))
    IN  IF ~up THEN [m |-> keep, e |-> e + drop]
        ELSE IF Len(inc) = DoubleBits THEN [m |-> inc, e |-> e + drop]
        ELSE [m |-> SubSeq(inc, 1, DoubleBits), e |-> e + drop + 1]

\* n and d doubled until d <= n < 2 * d, with the power of two it took
RECURSIVE Normal(_, _, _)
Normal(n, d, k) ==
    IF n < d THEN Normal(2 * n, d, k - 1)
    ELSE IF n >= 2 * d THEN Normal(n, 2 * d, k + 1)
    ELSE [n |-> n, d |-> d, k |-> k]

\* x / y in Python, of integers x > 0 and y > 0
FloatDiv(x, y) ==
    LET nd == Normal(x, y, 0)
    IN  RoundDouble(DivBits(nd.n, nd.d, DoubleBits + 1),
                    nd.k - DoubleBits,
                    DivRest(nd.n, nd.d, DoubleBits + 1) # 0)

RECURSIVE NatBitsLow(_)
NatBitsLow(n) == IF n = 0 THEN <<>> ELSE <<n % 2>> \o NatBitsLow(n \div 2)

RECURSIVE MulLow(_, _, _)
MulLow(low, c, carry) ==
    IF low = <<>> THEN NatBitsLow(carry)
    ELSE LET digit == Head(low) * c + carry
         IN  <<digit % 2>> \o MulLow(Tail(low), c, digit \div 2)

\* f * c in Python, of a double f > 0 and a small integer c > 0
FloatMul(f, c) == RoundDouble(Reverse(MulLow(Reverse(f.m), c, 0)), f.e, FALSE)

RECURSIVE BitsToNat(_)
BitsToNat(bits) ==
    IF bits = <<>> THEN 0
    ELSE 2 * BitsToNat(SubSeq(bits, 1, Len(bits) - 1)) + bits[Len(bits)]

\* int(f) of a double f > 0 below 2^31
FloatToInt(f) ==
    IF DoubleBits + f.e <= 0 THEN 0
    ELSE BitsToNat(SubSeq(f.m, 1, DoubleBits + f.e))

\* floor(x * 100 / y), the exact quotient
percent_exact(x, y) == IF y > 0 THEN (x * 100) \div y ELSE 0

\* int((x / y) * 100) if y > 0 else 0
percent(x, y) ==
    IF y > 0
    THEN IF x = 0 THEN 0 ELSE FloatToInt(FloatMul(FloatDiv(x, y), 100))
    ELSE 0

\* percent of the small scores of a quiz, computed once
Percents == [x \in 0..(MaxGrow + 1) |-> [y \in 0..(MaxGrow + 1) |-> percent(x, y)]]

\* percent(x, y), looked up where the table holds it
int_percent(x, y) ==
    IF x \in DOMAIN Percents /\ y \in DOMAIN Percents
    THEN Percents[x][y]
    ELSE percent(x, y)

----------------------------------------------------------------------------
(* The tables.                                                             *)

\* SELECT id FROM people WHERE name = ?  (the set of matching ids)
IdsOfName(name) == {people[i].id : i \in {j \in DOMAIN people : people[j].name = name}}

\* SELECT name FROM people WHERE id = ?  (the set of matching names)
NamesOfId(id) == {people[i].name : i \in {j \in DOMAIN people : people[j].id = id}}

\* the rows of a bag that satisfy person_id = pid, as a bag
RowsOf(tbl, pid) ==
    LET keep == {r \in BagToSet(tbl) : r.person_id = pid}
    IN  [r \in keep |-> tbl[r]]

\* SELECT COUNT(1) FROM tracks t WHERE t.person_id = pid
CountTracks(pid) == BagCardinality(RowsOf(tracks, pid))

\* a bag of rows as a sequence in the order of column pos (ORDER BY pos); rows
\* of one pos come in an order SQLite is free to choose, here a fixed one
RECURSIVE OrderByPos(_)
OrderByPos(b) ==
    IF BagToSet(b) = {} THEN <<>>
    ELSE LET r == CHOOSE x \in BagToSet(b) : \A y \in BagToSet(b) : x.pos <= y.pos
         IN  <<r>> \o OrderByPos(b (-) SetToBag({r}))

\* SELECT track_id FROM tracks WHERE person_id = ? ORDER BY pos
TrackIdsOf(pid) ==
    LET rows == OrderByPos(RowsOf(tracks, pid))
    IN  [i \in DOMAIN rows |-> rows[i].track_id]

----------------------------------------------------------------------------
(* POST and GET /input-songs.                                              *)

\* INSERT OR IGNORE INTO people (name) VALUES (?): name is UNIQUE, id the rowid
InsertOrIgnorePerson(tbl, name) ==
    IF \E i \in DOMAIN tbl : tbl[i].name = name
    THEN tbl
    ELSE Append(tbl, [id |-> Len(tbl) + 1, name |-> name])

\* SELECT id FROM people WHERE name = ?
PersonId(tbl, name) == (CHOOSE i \in DOMAIN tbl : tbl[i].name = name)

\* a faulty variant: the rows of earlier calls are kept
DeleteTracksOf_skip(tbl, pid) == tbl

\* DELETE FROM tracks WHERE person_id = ?
DeleteTracksOf(tbl, pid) ==
    LET keep == {r \in BagToSet(tbl) : r.person_id # pid}
    IN  [r \in keep |-> tbl[r]]

\* executemany INSERT INTO tracks (person_id, track_id, pos)
InsertTracks(tbl, pid, t1, t2, t3) ==
    tbl (+) SetToBag({[person_id |-> pid, track_id |-> extract_track_id(t1), pos |-> 1]})
        (+) SetToBag({[person_id |-> pid, track_id |-> extract_track_id(t2), pos |-> 2]})
        (+) SetToBag({[person_id |-> pid, track_id |-> extract_track_id(t3), pos |-> 3]})

\* POST /input-songs with the form fields name, t1, t2, t3
input_songs(form) ==
    LET name == strip(form.name)
        t1 == strip(form.t1)
        t2 == strip(form.t2)
        t3 == strip(form.t3)
    IN  IF name = <<>> \/ ~(t1 # <<>> /\ t2 # <<>> /\ t3 # <<>>)
        THEN /\ response' = [op |-> "input_songs", status |-> 400]
             /\ UNCHANGED <<people, tracks, last_call>>
             /\ UNCHANGED <<leaderboard, person_stats, session, rounds, requests>>
        ELSE LET people1 == InsertOrIgnorePerson(people, name)
                 pid == people1[PersonId(people1, name)].id
             IN  /\ people' = people1
                 /\ tracks' = InsertTracks(DeleteTracksOf(tracks, pid), pid, t1, t2, t3)
                 /\ last_call' = Put(last_call, name,
                        [tracks |-> <<t1, t2, t3>>,
                         edited |-> /\ Has(last_call, name)
                                    /\ \/ last_call[name].edited
                                       \/ last_call[name].tracks # <<t1, t2, t3>>])
                 /\ response' = [op |-> "input_songs", status |-> 302, to |-> "quiz"]
                 /\ UNCHANGED <<leaderboard, person_stats, session, rounds, requests>>

\* GET /input-songs: the page lists the people (their order is not modelled)
input_songs_get ==
    /\ response' = [op |-> "input_songs", status |-> 200,
                    people |-> {people[i].name : i \in DOMAIN people}]
    /\ UNCHANGED <<people, tracks, last_call>>
    /\ UNCHANGED <<leaderboard, person_stats, session, rounds, requests>>

----------------------------------------------------------------------------
(* GET /quiz.                                                              *)

\* SELECT p.* FROM people p WHERE (SELECT COUNT(1) FROM tracks ...) >= 3
EligiblePeople ==
    LET Enough(p) == CountTracks(p.id) >= 3
    IN  SelectSeq(people, Enough)

\* SELECT name FROM people WHERE id = ?, of an id the table holds
NameOf(id) == CHOOSE n \in NamesOfId(id) : TRUE

Perms(n) == {f \in [1..n -> 1..n] : \A i, j \in 1..n : f[i] = f[j] => i = j}

\* The random source: the places random.sample may pick and the orders
\* random.shuffle may leave.  random.choice is never restricted.
AnyRandom == [pairs |-> {x \in (1..MaxGrow) \X (1..MaxGrow) : x[1] # x[2]},
              orders |-> Perms(3)]
OneRandom == [pairs |-> {<<1, 2>>}, orders |-> {<<1, 2, 3>>}]

\* random.shuffle(l): the orders of l the random source can leave
Shuffles(l, rnd) == {[i \in 1..Len(l) |-> l[f[i]]] : f \in rnd.orders}

\* random.sample(l, 2): two entries of l at different places
Sample2(l, rnd) ==
    {<<l[ij[1]], l[ij[2]]>> :
        ij \in {x \in rnd.pairs : x[1] \in DOMAIN l /\ x[2] \in DOMAIN l}}

\* a faulty variant: the distractors are sampled from all names, the subject's
\* included
ChoiceLists_all(person_id, pool, rnd) ==
    LET names == [i \in DOMAIN pool |-> pool[i].name]
    IN  UNION {Shuffles(<<NameOf(person_id)>> \o ds, rnd) : ds \in Sample2(names, rnd)}

\* the lists the shuffled [correct_name] + distractors can be
ChoiceLists(person_id, pool, rnd) ==
    LET Other(p) == p.id # person_id
        others == SelectSeq(pool, Other)
        other_names == [i \in DOMAIN others |-> others[i].name]
    IN  UNION {Shuffles(<<NameOf(person_id)>> \o ds, rnd) :
                  ds \in Sample2(other_names, rnd)}

NoScore == [right |-> 0, total |-> 0]

\* the history of a play: rounds put up (a reload that shows the pending person
\* again is the same round), eligible participants when it started, leaderboard
\* entries written
NoRounds == [count |-> 0, pool |-> 0, entries |-> 0]

\* remaining = session.get("remaining_people"); remaining is None
RemainingIsNone(d) == ~Has(d, "remaining_people") \/ IsNone(d["remaining_people"])

\* the progress shown with a round
Progress(d) ==
    LET score == Get(d, "score", NoScore)
    IN  [score |-> score,
         total_people |-> d["total_people"],
         percent |-> IF d["total_people"] > 0
                     THEN int_percent(score.total, d["total_people"])
                     ELSE 0]

\* if 'total_people' not in session: the count of all people is stored
quiz_total(d) ==
    IF Has(d, "total_people") THEN d
    ELSE Put(d, "total_people", Len(people))

\* random.choice(remaining): the ids the round's person can be
quiz_draw(d, pool) == Range(d["remaining_people"].list)

\* the session after the round of person_id was set up
quiz_store(d, person_id) ==
    LET d1 == Put(d, "current_person_id", person_id)
        d2 == Put(d1, "correct_person_id", person_id)
        d3 == Put(d2, "current_track_ids", TrackIdsOf(person_id))
    IN  quiz_total(d3)

\* a faulty variant: 2 players are let through
quiz_need_more_2(pool) == Len(pool) < 2

\* if len(people) < 3: at least 3 players are required
quiz_need_more(pool) == Len(pool) < 3

\* GET /quiz, while the play has put up fewer than cap rounds
quiz_upto(s, rnd, cap) ==
    LET d == session[s]
        pool == EligiblePeople
        d0 == IF RemainingIsNone(d)
              THEN Put(d, "remaining_people", List([i \in DOMAIN pool |-> pool[i].id]))
              ELSE d
        progress == Progress(quiz_total(d0))
    IN  /\ UNCHANGED <<people, tracks, leaderboard, person_stats, last_call, requests>>
        /\ IF pool = <<>>
           THEN /\ response' = [op |-> "quiz", sid |-> s, status |-> 200,
                                view |-> "empty.html"]
                /\ UNCHANGED <<session, rounds>>
           ELSE IF quiz_need_more(pool)
           THEN /\ response' = [op |-> "quiz", sid |-> s, status |-> 200,
                                view |-> "need_more_players.html", count |-> Len(pool)]
                /\ UNCHANGED <<session, rounds>>
           ELSE IF Truthy(d, "all_shown")
           THEN /\ response' = [op |-> "quiz", sid |-> s, status |-> 302,
                                to |-> "finished"]
                /\ UNCHANGED <<session, rounds>>
           ELSE IF d0["remaining_people"].list = <<>>
           THEN \* random.choice of an empty list raises IndexError
                /\ response' = [op |-> "quiz", sid |-> s, status |-> 500]
                /\ session' = [session EXCEPT ![s] = d0]
                /\ UNCHANGED rounds
           ELSE IF \E person_id \in quiz_draw(d0, pool) : Len(pool) < 3
           THEN \* random.sample of more names than there are raises ValueError
                /\ \E person_id \in quiz_draw(d0, pool) :
                       session' = [session EXCEPT ![s] =
                                      Put(d0, "current_person_id", person_id)]
                /\ response' = [op |-> "quiz", sid |-> s, status |-> 500]
                /\ UNCHANGED rounds
           ELSE /\ rounds[s].count < cap
                /\ \E person_id \in quiz_draw(d0, pool) :
                   \E names \in ChoiceLists(person_id, pool, rnd) :
                      LET d1 == quiz_store(d0, person_id)
                      IN  /\ session' = [session EXCEPT ![s] = d1]
                          /\ response' = [op |-> "quiz", sid |-> s, status |-> 200,
                                          view |-> "quiz.html",
                                          subject |-> person_id,
                                          track_ids |-> d1["current_track_ids"],
                                          choices |-> names,
                                          progress |-> progress]
                          /\ rounds' = [rounds EXCEPT ![s] =
                                 [count |-> IF Get(d, "correct_person_id", 0) = person_id
                                            THEN @.count ELSE @.count + 1,
                                  pool |-> IF RemainingIsNone(d) THEN Len(pool)
                                           ELSE @.pool,
                                  entries |-> @.entries]]

quiz(s, rnd) == quiz_upto(s, rnd, MaxRounds)

----------------------------------------------------------------------------
(* POST /guess.                                                            *)

\* SELECT * FROM person_stats WHERE person_id = ?
StatsOf(tbl, pid) == {r \in tbl : r.person_id = pid}

\* a faulty variant: the first row is inserted, an existing row is left as it is
UpsertStats_insert_only(tbl, pid, result) ==
    IF StatsOf(tbl, pid) # {} THEN tbl
    ELSE tbl \cup {[person_id |-> pid,
                    correct_guesses |-> IF result THEN 1 ELSE 0,
                    total_guesses |-> 1]}

\* the UPDATE of an existing row, or the INSERT of the first one
UpsertStats(tbl, pid, result) ==
    IF StatsOf(tbl, pid) # {}
    THEN {IF r.person_id = pid
          THEN [r EXCEPT !.correct_guesses = @ + (IF result THEN 1 ELSE 0),
                         !.total_guesses = @ + 1]
          ELSE r : r \in tbl}
    ELSE tbl \cup {[person_id |-> pid,
                    correct_guesses |-> IF result THEN 1 ELSE 0,
                    total_guesses |-> 1]}

\* a faulty variant: a right guess is not counted as right
guess_score_total_only(d, result) ==
    LET score == Get(d, "score", NoScore)
    IN  Put(d, "score", [right |-> score.right, total |-> score.total + 1])

\* score["total"] += 1; if result: score["right"] += 1
guess_score(d, result) ==
    LET score == Get(d, "score", NoScore)
    IN  Put(d, "score", [right |-> score.right + (IF result THEN 1 ELSE 0),
                         total |-> score.total + 1])

\* a faulty variant: nobody leaves remaining_people
guess_remove_never(d) == d

\* a faulty variant: the first of remaining_people leaves, whoever was shown
guess_remove_first(d) ==
    LET remaining == Get(d, "remaining_people", List(<<>>)).list
    IN  IF Has(d, "current_person_id") /\ d["current_person_id"] \in Range(remaining)
        THEN LET rest == Tail(remaining)
             IN  IF rest # <<>>
                 THEN Put(d, "remaining_people", List(rest))
                 ELSE Put(Put(d, "remaining_people", None), "all_shown", TRUE)
        ELSE d

\* the person of the round leaves remaining_people; the last one ends the quiz
guess_remove(d) ==
    LET remaining == Get(d, "remaining_people", List(<<>>)).list
    IN  IF Has(d, "current_person_id") /\ d["current_person_id"] \in Range(remaining)
        THEN LET rest == Remove(remaining, d["current_person_id"])
             IN  IF rest # <<>>
                 THEN Put(d, "remaining_people", List(rest))
                 ELSE Put(Put(d, "remaining_people", None), "all_shown", TRUE)
        ELSE d

\* history.append(...), the round's keys popped, last_result stored
guess_history(d, chosen, correct_name, result) ==
    LET entry == [chosen |-> chosen, correct |-> correct_name, is_right |-> result,
                  tracks |-> Get(d, "current_track_ids", <<>>)]
        d1 == Put(d, "history", Append(Get(d, "history", <<>>), entry))
        d2 == Pop(Pop(d1, "current_track_ids"), "correct_person_id")
    IN  Put(d2, "last_result",
            [chosen |-> chosen, correct |-> correct_name, is_right |-> result])

\* a faulty variant: a guess is scored whether or not a round is pending
guess_stale_scored(d) == FALSE

\* correct_id is None: no round is pending
guess_stale(d) == ~Has(d, "correct_person_id")

\* POST /guess with the form field choice, while no statistics row it touches
\* has reached cap guesses
guess_upto(s, chosen, cap) ==
    LET d == session[s]
    IN  /\ UNCHANGED <<people, tracks, leaderboard, last_call, rounds, requests>>
        /\ IF guess_stale(d)
           THEN /\ response' = [op |-> "guess", sid |-> s, status |-> 302, to |-> "quiz"]
                /\ UNCHANGED <<session, person_stats>>
           ELSE LET correct_id == Get(d, "correct_person_id", 0)
                    correct_name == IF NamesOfId(correct_id) # {}
                                    THEN NameOf(correct_id) ELSE <<"Unknown">>
                    result == (chosen = correct_name)
                    d1 == guess_score(d, result)
                IN  /\ \A r \in StatsOf(person_stats, correct_id) :
                           r.total_guesses < cap
                    /\ person_stats' = UpsertStats(person_stats, correct_id, result)
                    /\ IF Has(d1, "remaining_people") /\ IsNone(d1["remaining_people"])
                       THEN \* "in" applied to None raises TypeError
                            /\ session' = [session EXCEPT ![s] = d1]
                            /\ response' = [op |-> "guess", sid |-> s, status |-> 500]
                       ELSE LET d2 == guess_history(guess_remove(d1), chosen,
                                                    correct_name, result)
                            IN  /\ session' = [session EXCEPT ![s] = d2]
                                /\ response' = [op |-> "guess", sid |-> s,
                                                status |-> 200,
                                                subject |-> correct_id,
                                                chosen |-> chosen,
                                                correct |-> correct_name,
                                                is_right |-> result,
                                                score |-> d2["score"],
                                                finished |-> Truthy(d2, "all_shown")]

guess(s, chosen) == guess_upto(s, chosen, MaxGuesses)

----------------------------------------------------------------------------
(* GET /finished, /enter-name, POST /skip-name, GET /leaderboard, POST     *)
(* /reset, GET /.                                                          *)

\* the track ids of the rows of tracks joined with people
JoinedTrackIds ==
    {r.track_id : r \in {x \in BagToSet(tracks) : NamesOfId(x.person_id) # {}}}

\* shared_tracks[tid]["owners"]: the name of every joined row of track tid, a
\* name as often as its person has a row of that track, here as a bag
OwnersOf(tid) ==
    LET rows == {r \in BagToSet(tracks) :
                    r.track_id = tid /\ NamesOfId(r.person_id) # {}}
        names == {NameOf(r.person_id) : r \in rows}
        RowsOfName(n) == {r \in rows : NameOf(r.person_id) = n}
    IN  [n \in names |-> BagCardinality([r \in RowsOfName(n) |-> tracks[r]])]

\* sorted(..., key=len(owners), reverse=True) of a set of groups; groups of
\* one length keep the order of their track ids, which is not modelled
RECURSIVE OrderShared(_)
OrderShared(groups) ==
    IF groups = {} THEN <<>>
    ELSE LET g == CHOOSE x \in groups : \A y \in groups :
                      BagCardinality(x.owners) >= BagCardinality(y.owners)
         IN  <<g>> \o OrderShared(groups \ {g})

\* the groups with len(owners) > 1, in the order of the page
SharedTracks ==
    OrderShared({[track_id |-> tid, owners |-> OwnersOf(tid)] :
                    tid \in {t \in JoinedTrackIds : BagCardinality(OwnersOf(t)) > 1}})

\* the exact integer part of f * c, of a double f > 0 and a small integer c > 0
FloatFloorMul(f, c) ==
    LET bits == Reverse(MulLow(Reverse(f.m), c, 0))
    IN  IF Len(bits) + f.e <= 0 THEN 0
        ELSE BitsToNat(SubSeq(bits, 1, Len(bits) + f.e))

\* ROUND(correct * 100.0 / total, 1), in tenths: the double quotient rounded
\* to one decimal, a half upwards
success_rate(correct, total) ==
    IF correct = 0 THEN 0
    ELSE (FloatFloorMul(FloatDiv(correct * 100, total), 20) + 1) \div 2

\* success_rate of the counts up to MaxStatTotal, computed once
SuccessRates ==
    [total \in 1..(MaxStatTotal + 1) |->
        [correct \in 0..total |-> success_rate(correct, total)]]

\* success_rate(correct, total), looked up where the table holds it
sql_success_rate(correct, total) ==
    IF total \in DOMAIN SuccessRates /\ correct \in DOMAIN SuccessRates[total]
    THEN SuccessRates[total][correct]
    ELSE success_rate(correct, total)

\* the rows the chameleon query can return first: WHERE total_guesses >= 3
\* ORDER BY success_rate ASC, total_guesses DESC; rows equal in both come in
\* an order SQLite is free to choose
ChameleonRows ==
    LET rows == {r \in person_stats :
                    r.total_guesses >= 3 /\ NamesOfId(r.person_id) # {}}
        rate == [r \in rows |-> sql_success_rate(r.correct_guesses, r.total_guesses)]
        Less(a, b) == \/ rate[a] < rate[b]
                      \/ rate[a] = rate[b] /\ a.total_guesses > b.total_guesses
    IN  {[name |-> NameOf(r.person_id),
          correct_guesses |-> r.correct_guesses,
          total_guesses |-> r.total_guesses,
          success_rate |-> rate[r]] : r \in {x \in rows : \A y \in rows : ~Less(y, x)}}

\* fetchone() of the chameleon query: a row, or None
Chameleons == IF ChameleonRows = {} THEN {None} ELSE ChameleonRows

finished(s) ==
    LET d == session[s]
    IN  /\ \E chameleon \in Chameleons :
               response' = [op |-> "finished", sid |-> s, status |-> 200,
                            show_name_modal |-> (Truthy(d, "all_shown")
                                                 /\ ~Truthy(d, "name_submitted")),
                            score |-> Get(d, "score", NoScore),
                            shared_tracks |-> SharedTracks,
                            chameleon |-> chameleon]
        /\ UNCHANGED <<people, tracks, leaderboard, person_stats, session, rounds,
                       last_call, requests>>

\* INSERT INTO leaderboard (name, right, total, percent)
InsertEntry(tbl, player_name, score) ==
    Append(tbl, [name |-> player_name, right |-> score.right, total |-> score.total,
                 percent |-> int_percent(score.right, score.total)])

\* a faulty variant: a name is taken before the quiz is completed
enter_name_closed_never(d) == FALSE

\* if not session.get("all_shown"): the quiz is not completed
enter_name_closed(d) == ~Truthy(d, "all_shown")

enter_name(s, method, name) ==
    LET d == session[s]
        player_name == strip(name)
    IN  /\ UNCHANGED <<people, tracks, person_stats, last_call, requests>>
        /\ IF enter_name_closed(d)
           THEN /\ response' = [op |-> "enter_name", sid |-> s, status |-> 302,
                                to |-> "quiz"]
                /\ UNCHANGED <<session, leaderboard, rounds>>
           ELSE IF method = "GET"
           THEN /\ response' = [op |-> "enter_name", sid |-> s, status |-> 302,
                                to |-> "finished"]
                /\ UNCHANGED <<session, leaderboard, rounds>>
           ELSE IF player_name = <<>>
           THEN /\ response' = [op |-> "enter_name", sid |-> s, status |-> 200,
                                error |-> "Please enter your name."]
                /\ UNCHANGED <<session, leaderboard, rounds>>
           ELSE /\ Len(leaderboard) < MaxLeaderboard
                /\ leaderboard' = InsertEntry(leaderboard, player_name,
                                              Get(d, "score", NoScore))
                /\ session' = [session EXCEPT ![s] = Put(d, "name_submitted", TRUE)]
                /\ rounds' = [rounds EXCEPT ![s].entries = @ + 1]
                /\ response' = [op |-> "enter_name", sid |-> s, status |-> 302,
                                to |-> "finished", wrote |-> Len(leaderboard) + 1]

skip_name(s) ==
    LET d == session[s]
    IN  /\ session' = [session EXCEPT ![s] =
                          IF Truthy(d, "all_shown") /\ ~Truthy(d, "name_submitted")
                          THEN Put(d, "name_submitted", TRUE)
                          ELSE d]
        /\ response' = [op |-> "skip_name", sid |-> s, status |-> 302,
                        to |-> "finished"]
        /\ UNCHANGED <<people, tracks, leaderboard, person_stats, rounds, last_call, requests>>

\* the keys /reset pops
ResetKeys == <<"remaining_people", "all_shown", "correct_person_id", "last_result",
               "score", "history", "current_track_ids", "name_submitted">>

reset_session(d) == PopAll(d, ResetKeys)

\* a faulty variant: the reset clears every session
reset_all(s) ==
    /\ session' = [t \in DOMAIN session |-> reset_session(session[t])]
    /\ rounds' = [rounds EXCEPT ![s] = NoRounds]
    /\ response' = [op |-> "reset", sid |-> s, status |-> 302, to |-> "quiz"]
    /\ UNCHANGED <<people, tracks, leaderboard, person_stats, last_call, requests>>

reset(s) ==
    /\ session' = [session EXCEPT ![s] = reset_session(@)]
    /\ rounds' = [rounds EXCEPT ![s] = NoRounds]
    /\ response' = [op |-> "reset", sid |-> s, status |-> 302, to |-> "quiz"]
    /\ UNCHANGED <<people, tracks, leaderboard, person_stats, last_call, requests>>

\* GET /: a redirect to /quiz
index ==
    /\ response' = [op |-> "index", status |-> 302, to |-> "quiz"]
    /\ UNCHANGED <<people, tracks, leaderboard, person_stats, session, rounds,
                   last_call, requests>>

\* ORDER BY percent DESC, right DESC, created_at ASC of rows in insertion order
RECURSIVE OrderEntries(_)
OrderEntries(rows) ==
    IF rows = <<>> THEN <<>>
    ELSE LET Before2(a, b) == \/ a.percent > b.percent
                              \/ a.percent = b.percent /\ a.right > b.right
             m == CHOOSE i \in DOMAIN rows :
                      /\ \A j \in DOMAIN rows : ~Before2(rows[j], rows[i])
                      /\ \A j \in 1..(i - 1) : Before2(rows[i], rows[j])
             rest == [k \in 1..(Len(rows) - 1) |-> IF k < m THEN rows[k] ELSE rows[k + 1]]
         IN  <<rows[m]>> \o OrderEntries(rest)

\* GET /leaderboard
leaderboard_page ==
    /\ response' = [op |-> "leaderboard", status |-> 200,
                    entries |-> OrderEntries(leaderboard)]
    /\ UNCHANGED <<people, tracks, leaderboard, person_stats, session, rounds,
                   last_call, requests>>

----------------------------------------------------------------------------
(* Requests handled at the same time.  Every request has its own database  *)
(* connection and reads the session from the cookie it was sent with; the  *)
(* steps of a request are its reads, each of its commits, and its          *)
(* response, which carries the session cookie back to the browser.         *)

\* a request not yet sent: of session sid to route
IdleRequest(route, sid) == [route |-> route, sid |-> sid, pc |-> "idle", status |-> 0]

\* no request of session s is being handled
NoneInFlight(s) ==
    \A r \in DOMAIN requests :
        requests[r].sid = s => requests[r].pc \in {"idle", "done"}

\* POST /guess up to the SELECT of the statistics row: the session and the
\* row are read; without a pending round the redirect is the whole request
guess_begin(r, chosen) ==
    LET s == requests[r].sid
        d == session[s]
        correct_id == Get(d, "correct_person_id", 0)
    IN  /\ requests[r].route = "guess" /\ requests[r].pc = "idle"
        /\ UNCHANGED <<people, tracks, leaderboard, person_stats, session, rounds,
                       last_call>>
        /\ IF guess_stale(d)
           THEN /\ response' = [op |-> "guess", sid |-> s, status |-> 302, to |-> "quiz"]
                /\ requests' = [requests EXCEPT ![r] =
                       [route |-> "guess", sid |-> s, pc |-> "done", status |-> 302,
                        chosen |-> chosen, d |-> d, subject |-> 0,
                        existing |-> FALSE, base |-> 0]]
           ELSE /\ UNCHANGED response
                /\ requests' = [requests EXCEPT ![r] =
                       [route |-> "guess", sid |-> s, pc |-> "read", status |-> 0,
                        chosen |-> chosen, d |-> d, subject |-> correct_id,
                        existing |-> StatsOf(person_stats, correct_id) # {},
                        base |-> IF StatsOf(person_stats, correct_id) = {} THEN 0
                                 ELSE (CHOOSE x \in StatsOf(person_stats, correct_id) :
                                          TRUE).total_guesses]]

\* the name and the result the request works with
guess_correct_name(q) ==
    IF NamesOfId(q.subject) # {} THEN NameOf(q.subject) ELSE <<"Unknown">>

guess_result(q) == (q.chosen = guess_correct_name(q))

\* the UPDATE or INSERT of the statistics row and its commit; an INSERT of a
\* row another request has inserted since the SELECT fails on the primary key
\* (sqlite3.IntegrityError), and the request ends with status 500
guess_write(r) ==
    LET q == requests[r]
    IN  /\ q.route = "guess" /\ q.pc = "read"
        /\ UNCHANGED <<people, tracks, leaderboard, session, rounds, last_call>>
        /\ IF ~q.existing /\ StatsOf(person_stats, q.subject) # {}
           THEN /\ response' = [op |-> "guess", sid |-> q.sid, status |-> 500]
                /\ requests' = [requests EXCEPT ![r].pc = "done", ![r].status = 500]
                /\ UNCHANGED person_stats
           ELSE /\ person_stats' = UpsertStats(person_stats, q.subject, guess_result(q))
                /\ requests' = [requests EXCEPT ![r].pc = "written"]
                /\ UNCHANGED response

\* the rest of the request: the session it read is updated and sent back
guess_end(r) ==
    LET q == requests[r]
        d1 == guess_score(q.d, guess_result(q))
    IN  /\ q.route = "guess" /\ q.pc = "written"
        /\ UNCHANGED <<people, tracks, leaderboard, person_stats, rounds, last_call>>
        /\ IF Has(d1, "remaining_people") /\ IsNone(d1["remaining_people"])
           THEN /\ session' = [session EXCEPT ![q.sid] = d1]
                /\ response' = [op |-> "guess", sid |-> q.sid, status |-> 500]
                /\ requests' = [requests EXCEPT ![r].pc = "done", ![r].status = 500]
           ELSE LET d2 == guess_history(guess_remove(d1), q.chosen,
                                        guess_correct_name(q), guess_result(q))
                IN  /\ session' = [session EXCEPT ![q.sid] = d2]
                    /\ response' = [op |-> "guess", sid |-> q.sid, status |-> 200,
                                    subject |-> q.subject, chosen |-> q.chosen,
                                    correct |-> guess_correct_name(q),
                                    is_right |-> guess_result(q),
                                    score |-> d2["score"],
                                    finished |-> Truthy(d2, "all_shown")]
                    /\ requests' = [requests EXCEPT ![r].pc = "done", ![r].status = 200]

\* POST /input-songs up to its first commit: the people row is inserted, or
\* ignored, and committed
input_songs_begin(r, form) ==
    LET name == strip(form.name)
        t1 == strip(form.t1)
        t2 == strip(form.t2)
        t3 == strip(form.t3)
    IN  /\ requests[r].route = "input_songs" /\ requests[r].pc = "idle"
        /\ UNCHANGED <<tracks, leaderboard, person_stats, session, rounds, last_call>>
        /\ IF name = <<>> \/ ~(t1 # <<>> /\ t2 # <<>> /\ t3 # <<>>)
           THEN /\ response' = [op |-> "input_songs", status |-> 400]
                /\ UNCHANGED <<people, requests>>
           ELSE /\ people' = InsertOrIgnorePerson(people, name)
                /\ requests' = [requests EXCEPT ![r] =
                       [route |-> "input_songs", sid |-> requests[r].sid,
                        pc |-> "people_committed", status |-> 0,
                        name |-> name, t1 |-> t1, t2 |-> t2, t3 |-> t3]]
                /\ UNCHANGED response

\* the rest of the request: the id is selected, the tracks are deleted and
\* inserted and committed together, and the redirect is sent
input_songs_end(r) ==
    LET q == requests[r]
        pid == people[PersonId(people, q.name)].id
    IN  /\ q.route = "input_songs" /\ q.pc = "people_committed"
        /\ tracks' = InsertTracks(DeleteTracksOf(tracks, pid), pid, q.t1, q.t2, q.t3)
        /\ last_call' = Put(last_call, q.name,
               [tracks |-> <<q.t1, q.t2, q.t3>>,
                edited |-> /\ Has(last_call, q.name)
                           /\ \/ last_call[q.name].edited
                              \/ last_call[q.name].tracks # <<q.t1, q.t2, q.t3>>])
        /\ response' = [op |-> "input_songs", status |-> 302, to |-> "quiz"]
        /\ requests' = [requests EXCEPT ![r] = IdleRequest("input_songs", q.sid)]
        /\ UNCHANGED <<people, leaderboard, person_stats, session, rounds>>

----------------------------------------------------------------------------
(* The requests of the model: one at a time, each handled to its end.      *)

\* the form of participant number i: its name and three tracks of its own
FormOf(i) ==
    [name |-> <<AllNames[i]>>,
     t1 |-> <<AllNames[i], "1">>,
     t2 |-> <<"https://", URL, AllNames[i], "?", "si">>,
     t3 |-> <<AllNames[i], "3", Blank>>]

\* the forms posted: of the participants there are and of the next new one,
\* up to max participants
Forms(max) == {FormOf(i) : i \in 1..(IF Len(people) < max THEN Len(people) + 1
                                      ELSE max)}

\* the choices posted to /guess: the names of the first n participants
Guesses(n) == {people[i].name : i \in DOMAIN people \cap 1..n}

\* the names posted to /enter-name
PlayerNames == {<<Blank, "zoe">>, <<Blank>>}

Sessions == DOMAIN session

InitDb ==
    /\ people = <<>>
    /\ tracks = EmptyBag
    /\ leaderboard = <<>>
    /\ person_stats = {}
    /\ response = [op |-> "none"]
    /\ last_call = EmptyDict
    /\ requests = EmptyDict

\* One browser, every route.
Init ==
    /\ InitDb
    /\ session = [s \in {"s1"} |-> EmptyDict]
    /\ rounds = [s \in {"s1"} |-> NoRounds]

Next ==
    \/ \E form \in Forms(MaxNames) : input_songs(form)
    \/ input_songs_get
    \/ \E s \in Sessions : quiz(s, AnyRandom)
    \/ \E s \in Sessions : \E chosen \in Guesses(2) : guess(s, chosen)
    \/ \E s \in Sessions : finished(s)
    \/ \E s \in Sessions : \E method \in {"GET", "POST"} : \E name \in PlayerNames :
           enter_name(s, method, name)
    \/ \E s \in Sessions : skip_name(s)
    \/ \E s \in Sessions : reset(s)
    \/ leaderboard_page
    \/ index

Spec == Init /\ [][Next]_vars

\* One browser and a pool that may grow to MaxGrow participants while it plays.
NextGrow ==
    \/ \E form \in Forms(MaxGrow) : input_songs(form)
    \/ \E s \in Sessions : quiz(s, AnyRandom)
    \/ \E s \in Sessions : \E chosen \in Guesses(1) : guess(s, chosen)
    \/ \E s \in Sessions : reset(s)

SpecGrow == Init /\ [][NextGrow]_vars

\* Two browsers; the shuffle and the sample are held fixed.
InitTwo ==
    /\ InitDb
    /\ session = [s \in {"s1", "s2"} |-> EmptyDict]
    /\ rounds = [s \in {"s1", "s2"} |-> NoRounds]

NextTwo ==
    \/ \E form \in Forms(MaxNames) : input_songs(form)
    \/ \E s \in Sessions : quiz(s, OneRandom)
    \/ \E s \in Sessions : \E chosen \in Guesses(1) : guess(s, chosen)
    \/ \E s \in Sessions : enter_name(s, "POST", <<"zoe">>)
    \/ \E s \in Sessions : reset(s)

SpecTwo == InitTwo /\ [][NextTwo]_vars

\* What is posted to /input-songs where only the store is exercised: names
\* with and without blanks around them, plain track ids and pasted links.
RawNames ==
    {<<AllNames[i]>> : i \in 1..MaxStoreNames}
        \cup {<<Blank, AllNames[1], Blank>>, <<Blank>>}

Link(id) == <<"https://", URL, id, "?", "si">>

\* the track triples posted: ids, links, a link that names two tracks, one
\* track twice, and a triple with a blank field
RawTriples ==
    {<<<<"a", Blank>>, Link("b"), <<URL, "a", "/", URL, "b">>>>,
     <<Link("b"), <<"c">>, <<Blank, "a">>>>,
     <<<<"c">>, Link("c"), <<"d">>>>,
     <<<<"a">>, <<Blank>>, <<"b">>>>}

RawForms ==
    {[name |-> n, t1 |-> t[1], t2 |-> t[2], t3 |-> t[3]] :
        n \in RawNames, t \in RawTriples}

NextStore ==
    \/ \E form \in RawForms : input_songs(form)
    \/ input_songs_get

SpecStore == Init /\ [][NextStore]_vars

\* The percent of a leaderboard entry, applied to every score up to MaxTotal.
InitPercent ==
    /\ people = <<>>
    /\ tracks = EmptyBag
    /\ leaderboard = <<>>
    /\ person_stats = {}
    /\ last_call = EmptyDict
    /\ requests = EmptyDict
    /\ session = [s \in {"s1"} |-> EmptyDict]
    /\ rounds = [s \in {"s1"} |-> NoRounds]
    /\ response \in {[op |-> "score", right |-> r, total |-> t] :
                        r \in 0..MaxTotal, t \in 0..MaxTotal}
    /\ response.right <= response.total

enter_name_percent ==
    /\ response.op = "score"
    /\ response' = [op |-> "percent", right |-> response.right,
                    total |-> response.total,
                    percent |-> percent(response.right, response.total)]
    /\ UNCHANGED <<people, tracks, leaderboard, person_stats, session, rounds,
                   last_call, requests>>

NextPercent == enter_name_percent

SpecPercent == InitPercent /\ [][NextPercent]_vars

\* Two browsers that play and reset, each participant guessed up to
\* MaxStatGuesses times.
NextStats ==
    \/ \E form \in Forms(MaxNames) : input_songs(form)
    \/ \E s \in Sessions : quiz(s, OneRandom)
    \/ \E s \in Sessions : \E chosen \in Guesses(1) :
           guess_upto(s, chosen, MaxStatGuesses)
    \/ \E s \in Sessions : reset(s)

SpecStats == InitTwo /\ [][NextStats]_vars

\* One browser that plays and resets while the pool grows to MaxProgress
\* participants; the shuffle and the sample are held fixed.
NextProgress ==
    \/ \E form \in Forms(MaxProgress) : input_songs(form)
    \/ \E s \in Sessions : quiz_upto(s, OneRandom, MaxProgress)
    \/ \E s \in Sessions : \E chosen \in Guesses(1) : guess(s, chosen)
    \/ \E s \in Sessions : reset(s)

SpecProgress == Init /\ [][NextProgress]_vars

\* The store and the finished page: what is posted to /input-songs, and the
\* shared tracks shown.
NextShared ==
    \/ \E form \in RawForms : input_songs(form)
    \/ \E s \in Sessions : finished(s)

SpecShared == Init /\ [][NextShared]_vars

\* The finished page over a filled statistics table: 3 participants, the
\* first two with any counts of up to MaxStatTotal guesses, at most MaxWrong
\* of them wrong, the third with no row or a row below the threshold.
StatRow(pid, correct, total) ==
    [person_id |-> pid, correct_guesses |-> correct, total_guesses |-> total]

StatsFor(pid) ==
    {{}} \cup {{StatRow(pid, ct[1], ct[2])} :
                  ct \in {x \in (0..MaxStatTotal) \X (1..MaxStatTotal) :
                             x[1] <= x[2] /\ x[2] - x[1] <= MaxWrong}}

BelowThreshold(pid) == {{}, {StatRow(pid, 0, 2)}}

\* the tables people and tracks after the forms of 3 participants were posted
PostedPeople == [i \in 1..3 |-> [id |-> i, name |-> strip(FormOf(i).name)]]

PostedTracks ==
    InsertTracks(InsertTracks(InsertTracks(EmptyBag,
        1, strip(FormOf(1).t1), strip(FormOf(1).t2), strip(FormOf(1).t3)),
        2, strip(FormOf(2).t1), strip(FormOf(2).t2), strip(FormOf(2).t3)),
        3, strip(FormOf(3).t1), strip(FormOf(3).t2), strip(FormOf(3).t3))

InitChameleon ==
    /\ people = PostedPeople
    /\ tracks = PostedTracks
    /\ leaderboard = <<>>
    /\ person_stats \in {a \cup b \cup c : a \in StatsFor(1), b \in StatsFor(2),
                                           c \in BelowThreshold(3)}
    /\ response = [op |-> "none"]
    /\ last_call = EmptyDict
    /\ requests = EmptyDict
    /\ session = [s \in {"s1"} |-> EmptyDict]
    /\ rounds = [s \in {"s1"} |-> NoRounds]

NextChameleon == \E s \in Sessions : finished(s)

SpecChameleon == InitChameleon /\ [][NextChameleon]_vars

\* 3 participants posted, and a statistics table that is empty or holds the
\* row of one earlier guess.
InitPosted ==
    /\ people = PostedPeople
    /\ tracks = PostedTracks
    /\ leaderboard = <<>>
    /\ person_stats \in {{}} \cup {{StatRow(pid, 0, 1)} : pid \in 1..3}
    /\ response = [op |-> "none"]
    /\ last_call = EmptyDict

\* Two browsers, each sending one guess; the two guesses are handled at the
\* same time, step by step.
InitConc ==
    /\ InitPosted
    /\ session = [s \in {"s1", "s2"} |-> EmptyDict]
    /\ rounds = [s \in {"s1", "s2"} |-> NoRounds]
    /\ requests = [r \in {"g1", "g2"} |->
                      IdleRequest("guess", IF r = "g1" THEN "s1" ELSE "s2")]

NextConc ==
    \/ \E s \in Sessions : NoneInFlight(s) /\ quiz(s, OneRandom)
    \/ \E r \in DOMAIN requests : \E chosen \in Guesses(2) : guess_begin(r, chosen)
    \/ \E r \in DOMAIN requests : guess_write(r)
    \/ \E r \in DOMAIN requests : guess_end(r)

SpecConc == InitConc /\ [][NextConc]_vars

\* One browser sending the guess of a round twice (a double click); the two
\* requests are handled at the same time, step by step.
InitDouble ==
    /\ InitPosted
    /\ session = [s \in {"s1"} |-> EmptyDict]
    /\ rounds = [s \in {"s1"} |-> NoRounds]
    /\ requests = [r \in {"g1", "g2"} |-> IdleRequest("guess", "s1")]

SpecDouble == InitDouble /\ [][NextConc]_vars

\* Two posts to /input-songs handled at the same time, step by step, and the
\* requests that read the store in between.
InitUpload ==
    /\ people = <<>>
    /\ tracks = EmptyBag
    /\ leaderboard = <<>>
    /\ person_stats = {}
    /\ response = [op |-> "none"]
    /\ last_call = EmptyDict
    /\ session = [s \in {"s1"} |-> EmptyDict]
    /\ rounds = [s \in {"s1"} |-> NoRounds]
    /\ requests = [r \in {"u1", "u2"} |-> IdleRequest("input_songs", "s1")]

NextUpload ==
    \/ \E r \in DOMAIN requests : \E form \in Forms(MaxNames) :
           input_songs_begin(r, form)
    \/ \E r \in DOMAIN requests : input_songs_end(r)
    \/ input_songs_get
    \/ \E s \in Sessions : quiz(s, OneRandom)

SpecUpload == InitUpload /\ [][NextUpload]_vars

----------------------------------------------------------------------------
(* The claims.                                                             *)

\* the response r is a round view rendered to session s
IsRound(r, s) ==
    r.op = "quiz" /\ r.status = 200 /\ r.view = "quiz.html" /\ r.sid = s

\* the response r is that of route op to session s
IsOf(r, op, s) == r.op = op /\ r.sid = s

\* len(remaining_people), None and absent counting as empty
RemainingLen(d) ==
    IF RemainingIsNone(d) THEN 0 ELSE Len(d["remaining_people"].list)

\* C1: when all_shown becomes true the session has been shown exactly as many
\* rounds as participants were eligible when it started; remaining plus the
\* scored guesses stay that number, and remaining is empty exactly when
\* all_shown is true.
C1_RoundsEqualPool ==
    \A s \in Sessions :
        LET d == session[s]
        IN  /\ Truthy(d, "all_shown") => rounds[s].count = rounds[s].pool
            /\ rounds[s].pool > 0 =>
                  /\ RemainingLen(d) + Get(d, "score", NoScore).total = rounds[s].pool
                  /\ Truthy(d, "all_shown") <=> RemainingLen(d) = 0

\* C2: a round request made while a round is pending returns the pending
\* subject and the choices of the page rendered before, and leaves the session
\* as it is.
C2_ReloadKeepsRound ==
    [][\A s \in Sessions :
          (Has(session[s], "correct_person_id") /\ IsRound(response', s)) =>
              /\ response'.subject = session[s]["correct_person_id"]
              /\ session'[s] = session[s]
              /\ IsRound(response, s) => response'.choices = response.choices]_vars

\* C3: between two resets a session writes at most one leaderboard entry,
\* whatever names it submits and skips after all_shown.
C3_OneEntryPerPlay == \A s \in Sessions : rounds[s].entries <= 1

\* C4: a guess submitted while no round is pending is answered by the redirect
\* to /quiz and changes neither the session nor the guess statistics.
C4_StaleGuessNotScored ==
    [][\A s \in Sessions :
          (~Has(session[s], "correct_person_id") /\ IsOf(response', "guess", s)) =>
              /\ response'.status = 302
              /\ session'[s] = session[s]
              /\ person_stats' = person_stats]_vars

\* a second guess, after the first one consumed the round, was redirected
C4_Witness ==
    \E s \in Sessions :
        /\ IsOf(response, "guess", s) /\ response.status = 302
        /\ Len(Get(session[s], "history", <<>>)) = 1
        /\ person_stats # {}

\* C5: the subject of every round rendered is in the session's remaining, and
\* its choices are 3 different names, the subject's name once and 2 names of
\* other eligible participants.
C5_RoundWellFormed ==
    \A s \in Sessions :
        IsRound(response, s) =>
            LET d == session[s]
                names == response.choices
                correct == NameOf(response.subject)
                others == {EligiblePeople[i].name : i \in
                              {j \in DOMAIN EligiblePeople :
                                  EligiblePeople[j].id # response.subject}}
            IN  /\ response.subject \in Range(d["remaining_people"].list)
                /\ Len(names) = 3
                /\ \A i, j \in 1..3 : names[i] = names[j] => i = j
                /\ Cardinality({i \in 1..3 : names[i] = correct}) = 1
                /\ Cardinality({i \in 1..3 : names[i] \in others}) = 2

\* a round drawn from 4 eligible participants, after a guess, with the subject
\* in the last place
C5_Witness ==
    \E s \in Sessions :
        /\ IsRound(response, s)
        /\ Len(EligiblePeople) = 4
        /\ Has(session[s], "history")
        /\ response.choices[3] = NameOf(response.subject)

\* the rows the latest accepted POST for name must have left
ExpectedRows(name) ==
    LET pid == CHOOSE i \in IdsOfName(name) : TRUE
        t == last_call[name].tracks
    IN  {[person_id |-> pid, track_id |-> extract_track_id(t[k]), pos |-> k] :
            k \in 1..3}

\* C6: every name posted has one people row and exactly 3 track rows, at
\* positions 1, 2, 3, holding the track ids of its latest accepted POST.
C6_TracksOfLatestCall ==
    /\ \A i, j \in DOMAIN people : people[i].name = people[j].name => i = j
    /\ {people[i].name : i \in DOMAIN people} = DOMAIN last_call
    /\ \A name \in DOMAIN last_call :
          /\ Cardinality(IdsOfName(name)) = 1
          /\ LET rows == RowsOf(tracks, CHOOSE i \in IdsOfName(name) : TRUE)
             IN  /\ BagCardinality(rows) = 3
                 /\ BagToSet(rows) = ExpectedRows(name)

\* two participants, one of them posted again with other tracks
C6_Witness ==
    /\ Len(people) = 2
    /\ response.op = "input_songs" /\ response.status = 302
    /\ \E name \in DOMAIN last_call : last_call[name].edited

\* C7: the percent of a leaderboard entry is floor(right * 100 / total), and 0
\* when total is 0.
C7_PercentIsFloor ==
    response.op = "percent" =>
        response.percent = percent_exact(response.right, response.total)

\* C8: a reset leaves a session that a round request cannot tell from one never
\* started: the first round request of a play stores the count of all
\* participants as total_people and every eligible participant in remaining.
C8_ResetStartsAfresh ==
    [][\A s \in Sessions :
          (rounds[s].count = 0 /\ IsRound(response', s)) =>
              /\ session'[s]["total_people"] = Len(people)
              /\ session'[s]["remaining_people"].list =
                     [i \in DOMAIN EligiblePeople |-> EligiblePeople[i].id]]_vars

\* C9: a reset leaves the four tables and every other session as they are.
C9_ResetFrame ==
    [][\A s \in Sessions :
          IsOf(response', "reset", s) =>
              /\ UNCHANGED <<people, tracks, leaderboard, person_stats>>
              /\ \A t \in Sessions \ {s} : session'[t] = session[t]]_vars

\* one session reset while the other has played and the tables are filled
C9_Witness ==
    \E s \in Sessions : \E t \in Sessions \ {s} :
        /\ IsOf(response, "reset", s)
        /\ Has(session[t], "history")
        /\ leaderboard # <<>>
        /\ person_stats # {}

\* C10: with fewer than 3 eligible participants a round request renders the
\* empty page (none eligible) or the need-more-players page (1 or 2), draws no
\* round and leaves every session as it is.
C10_TooFewPlayers ==
    [][\A s \in Sessions :
          (Len(EligiblePeople) < 3 /\ IsOf(response', "quiz", s)) =>
              /\ response'.status = 200
              /\ response'.view = (IF Len(EligiblePeople) = 0 THEN "empty.html"
                                   ELSE "need_more_players.html")
              /\ session' = session
              /\ rounds' = rounds]_vars

\* the need-more-players page was rendered for 2 eligible participants
C10_Witness ==
    \E s \in Sessions :
        /\ IsOf(response, "quiz", s)
        /\ response.status = 200
        /\ response.view = "need_more_players.html"
        /\ response.count = 2
        /\ session[s] = EmptyDict

\* C11: a name submitted while all_shown is false is answered by the redirect
\* to /quiz, writes no entry and leaves the session as it is; every entry
\* written is written for a session whose all_shown is true, with the score
\* that session has.
C11_NoEntryBeforeAllShown ==
    [][/\ \A s \in Sessions :
             (~Truthy(session[s], "all_shown") /\ IsOf(response', "enter_name", s)) =>
                 /\ leaderboard' = leaderboard
                 /\ session'[s] = session[s]
                 /\ response'.status = 302 /\ response'.to = "quiz"
       /\ leaderboard' # leaderboard =>
             \E s \in Sessions :
                 /\ IsOf(response', "enter_name", s)
                 /\ Truthy(session[s], "all_shown")
                 /\ Len(leaderboard') = Len(leaderboard) + 1
                 /\ SubSeq(leaderboard', 1, Len(leaderboard)) = leaderboard
                 /\ LET entry == leaderboard'[Len(leaderboard')]
                        score == Get(session[s], "score", NoScore)
                    IN  entry.right = score.right /\ entry.total = score.total]_vars

\* a name was submitted in the middle of a play, after a scored guess
C11_Witness ==
    \E s \in Sessions :
        /\ IsOf(response, "enter_name", s) /\ response.status = 302
        /\ response.to = "quiz"
        /\ Has(session[s], "history")
        /\ ~Truthy(session[s], "all_shown")

\* C12: the chameleon of the finished page is, among the participants with at
\* least 3 guesses, one with the least exact ratio correct_guesses /
\* total_guesses and, among those, the most guesses; it is None when no
\* participant has 3 guesses.
C12_ChameleonIsMinRatio ==
    \A s \in Sessions :
        IsOf(response, "finished", s) =>
            LET rows == {r \in person_stats : r.total_guesses >= 3}
                ch == response.chameleon
            IN  IF rows = {} THEN IsNone(ch)
                ELSE /\ ~IsNone(ch)
                     /\ \E r \in rows :
                            /\ NameOf(r.person_id) = ch.name
                            /\ r.correct_guesses = ch.correct_guesses
                            /\ r.total_guesses = ch.total_guesses
                     /\ \A q \in rows :
                            \/ ch.correct_guesses * q.total_guesses
                                   < q.correct_guesses * ch.total_guesses
                            \/ /\ ch.correct_guesses * q.total_guesses
                                      = q.correct_guesses * ch.total_guesses
                               /\ ch.total_guesses >= q.total_guesses

\* the names of the participants that have track tid
DistinctOwners(tid) ==
    {NameOf(r.person_id) : r \in {x \in BagToSet(tracks) : x.track_id = tid}}

\* C13: the shared tracks of the finished page are exactly the track ids that
\* at least 2 different participants have, a track one participant has twice
\* and nobody else has not among them, in the order of their number of owners,
\* the most first.
C13_SharedByTwoOwners ==
    \A s \in Sessions :
        IsOf(response, "finished", s) =>
            LET shared == response.shared_tracks
            IN  /\ {shared[i].track_id : i \in DOMAIN shared} =
                       {tid \in {r.track_id : r \in BagToSet(tracks)} :
                           Cardinality(DistinctOwners(tid)) >= 2}
                /\ \A i, j \in DOMAIN shared :
                       i < j => Cardinality(DOMAIN shared[i].owners)
                                    >= Cardinality(DOMAIN shared[j].owners)

\* the counters of participant pid, a missing row counting as 0 and 0
Counters(tbl, pid) ==
    IF StatsOf(tbl, pid) = {} THEN [correct |-> 0, total |-> 0]
    ELSE LET r == CHOOSE x \in StatsOf(tbl, pid) : TRUE
         IN  [correct |-> r.correct_guesses, total |-> r.total_guesses]

\* C14: requests handled one at a time keep every participant's counters equal
\* to the scored guesses on that participant: a scored guess adds one to its
\* subject's total_guesses, and one to correct_guesses when it was right, in
\* whatever state the guessing session is; no other request, a reset
\* included, changes a counter.
C14_StatsCountScoredGuesses ==
    [][/\ \A p \in DOMAIN people' :
             LET scored == /\ response'.op = "guess"
                           /\ response'.status = 200
                           /\ response'.subject = p
                 right == scored /\ response'.is_right
             IN  /\ Counters(person_stats', p).total =
                        Counters(person_stats, p).total + (IF scored THEN 1 ELSE 0)
                 /\ Counters(person_stats', p).correct =
                        Counters(person_stats, p).correct + (IF right THEN 1 ELSE 0)
                 /\ Cardinality(StatsOf(person_stats', p)) <= 1
       /\ \A r \in person_stats' : r.person_id \in DOMAIN people'
       /\ response'.op = "guess" => response'.status \in {200, 302}]_vars

\* the second right guess on a participant, by a session that has not
\* completed its quiz, after the other session was reset; another participant
\* was guessed wrong
C14_Witness ==
    \E s \in Sessions : \E t \in Sessions \ {s} :
        /\ IsOf(response, "guess", s) /\ response.status = 200
        /\ response.is_right
        /\ Counters(person_stats, response.subject) = [correct |-> 2, total |-> 2]
        /\ \E r \in person_stats : r.correct_guesses = 0
        /\ ~Truthy(session[s], "all_shown")
        /\ session[t] # EmptyDict /\ ~Has(session[t], "remaining_people")

\* the guess requests on participant p whose statistics step is over
GuessesOn(p) ==
    {r \in DOMAIN requests :
        /\ requests[r].route = "guess"
        /\ requests[r].pc \in {"written", "done"}
        /\ requests[r].subject = p}

\* C15: of guesses handled at the same time none fails, and total_guesses of
\* their subject has grown by their number since the first of them read it.
C15_ConcurrentGuessesCounted ==
    /\ \A r \in DOMAIN requests :
           requests[r].pc = "done" => requests[r].status \in {200, 302}
    /\ \A p \in DOMAIN people :
           GuessesOn(p) # {} =>
               LET first == CHOOSE r \in GuessesOn(p) :
                                \A q \in GuessesOn(p) :
                                    requests[r].base <= requests[q].base
               IN  Counters(person_stats, p).total =
                       requests[first].base + Cardinality(GuessesOn(p))

\* the ids in remaining_people, None and absent counting as none
RemainingSet(d) ==
    IF RemainingIsNone(d) THEN {} ELSE Range(d["remaining_people"].list)

\* two guess requests that read the same session state with a pending round,
\* both answered
DoubleGuess(r1, r2) ==
    /\ r1 # r2
    /\ requests[r1].pc = "done" /\ requests[r2].pc = "done"
    /\ requests[r1].subject # 0 /\ requests[r2].subject # 0
    /\ requests[r1].sid = requests[r2].sid
    /\ requests[r1].d = requests[r2].d

\* C16: when two guesses of one session on the same pending round were handled
\* at the same time, total_guesses of the subject has grown by at most 2 and
\* score.total by at most 2, and remaining has lost the subject and nobody
\* else.
C16_DoubleGuessBounded ==
    \A r1, r2 \in DOMAIN requests :
        DoubleGuess(r1, r2) =>
            LET d0 == requests[r1].d
                d == session[requests[r1].sid]
                p == requests[r1].subject
                base == IF requests[r1].base <= requests[r2].base
                        THEN requests[r1].base ELSE requests[r2].base
            IN  /\ Counters(person_stats, p).total <= base + 2
                /\ Get(d, "score", NoScore).total <= Get(d0, "score", NoScore).total + 2
                /\ p \notin RemainingSet(d)
                /\ RemainingSet(d) = RemainingSet(d0) \ {p}

\* both requests were scored: the subject, not the first of remaining, was
\* counted twice
C16_Witness ==
    \E r1, r2 \in DOMAIN requests :
        /\ DoubleGuess(r1, r2)
        /\ requests[r1].status = 200 /\ requests[r2].status = 200
        /\ Counters(person_stats, requests[r1].subject).total = requests[r1].base + 2
        /\ requests[r1].subject # Head(requests[r1].d["remaining_people"].list)

\* C17: in every committed state each participant row has exactly 3 track
\* rows: no row of people is committed without its tracks, and no part of a
\* triple.
C17_PeopleHaveThreeTracks ==
    \A i \in DOMAIN people : CountTracks(people[i].id) = 3

\* the response r is that of a scored guess of session s
IsScored(r, s) == r.op = "guess" /\ r.sid = s /\ r.status = 200

C19_ScoreMatchesHistory ==
    [][\A s \in Sessions :
          LET score == Get(session'[s], "score", NoScore)
              history == Get(session'[s], "history", <<>>)
          IN  /\ score.total = Len(history)
              /\ score.right = Cardinality({i \in DOMAIN history : history[i].is_right})
              /\ 0 <= score.right /\ score.right <= score.total
              /\ (Truthy(session[s], "all_shown") /\ ~IsOf(response', "reset", s)) =>
                     /\ Get(session[s], "score", NoScore) = score
                     /\ Get(session[s], "history", <<>>) = history
                     /\ Truthy(session'[s], "all_shown")]_vars

\* a guess sent after the quiz was completed with right and wrong guesses
C19_Witness ==
    \E s \in Sessions :
        /\ IsOf(response, "guess", s) /\ response.status = 302
        /\ Truthy(session[s], "all_shown")
        /\ session[s]["score"].right \in {1, 2}
        /\ Len(session[s]["history"]) = 3

\* C20: the progress percent of every round view is between 0 and 100, that
\* is, the score.total it is computed from is not above total_people.
C20_ProgressWithinRange ==
    \A s \in Sessions :
        IsRound(response, s) =>
            /\ response.progress.percent >= 0
            /\ response.progress.percent <= 100
            /\ response.progress.score.total <= response.progress.total_people

====
